---- MODULE Spec2Model ----
(***************************************************************************)
(* A model of parkrun.py (Python 2): the duration converters, the importer *)
(* importResults and the two resamplers resample_AgeCat and resample.      *)
(*                                                                         *)
(* Durations are floats holding minutes in the code.  Here a duration is   *)
(* an integer number of ticks, TicksPerSecond ticks to the second, so that *)
(* every quotient the code computes is exact.  Strings are sequences of    *)
(* one-character strings.  An age grade is an integer percentage 0..100.   *)
(***************************************************************************)
EXTENDS Integers, Sequences, FiniteSets, TLC

VARIABLES
    pc,         \* position of the call being modelled
    arg,        \* the arguments of the call (a record)
    timeStr,    \* converters: the time string read or written
    parsed,     \* converters: result of timeString_to_minutes
    results,    \* importResults / resample: the table being built or returned
    stats,      \* importResults: totalRunners, totalUnknowns, validEntries
    cat,        \* resample_AgeCat: index in selectCats of the next category
    newResults, \* resample_AgeCat: the accumulated table
    results1,   \* resample: the reference table, modified in place
    results2    \* resample: the target table, modified in place

vars == <<pc, arg, timeStr, parsed, results, stats, cat, newResults,
          results1, results2>>

None == [none |-> TRUE]

----------------------------------------------------------------------------
(* Bounds of the model *)

TicksPerSecond == 3
MaxMinutes == 62
MaxHours == 1

MaxDataRows == 3      \* data lines of an imported file
MaxShort == 1         \* how far below the defaults the caller's skip counts go
MaxPerCat == 2        \* rows of one age category in a table to resample
MaxSamples == 2       \* rows asked of a resampler
MaxRows == 2          \* rows of the reference and of the target table of resample
MaxBuckets == 4       \* nCats runs over 1..MaxBuckets and the default

TicksPerMinute == 60 * TicksPerSecond

----------------------------------------------------------------------------
(* Strings and numbers *)

Digits == <<"0", "1", "2", "3", "4", "5", "6", "7", "8", "9">>

IsDigit(c) == \E i \in 1..10 : Digits[i] = c

DigitVal(c) == (CHOOSE i \in 1..10 : Digits[i] = c) - 1

\* '{}'.format(n) for an int n >= 0
RECURSIVE IntToStr(_)
IntToStr(n) == IF n < 10 THEN <<Digits[n + 1]>>
               ELSE IntToStr(n \div 10) \o <<Digits[(n % 10) + 1]>>

\* '{:02.0f}'.format(v) for a float v holding an integer >= 0: at least two
\* digits, padded with zeros on the left
Pad2(n) == IF n < 10 THEN <<"0">> \o IntToStr(n) ELSE IntToStr(n)

\* int(s): the value of a non-empty string of digits, ValueError otherwise
RECURSIVE DigitsVal(_)
DigitsVal(s) == IF s = <<>> THEN 0
                ELSE 10 * DigitsVal(SubSeq(s, 1, Len(s) - 1)) + DigitVal(s[Len(s)])

IsInt(s) == s # <<>> /\ \A i \in 1..Len(s) : IsDigit(s[i])

\* x.split(':')
RECURSIVE Split(_)
Split(s) ==
    IF \A i \in 1..Len(s) : s[i] # ":" THEN <<s>>
    ELSE LET k == CHOOSE i \in 1..Len(s) :
                     s[i] = ":" /\ \A j \in 1..(i - 1) : s[j] # ":"
         IN  <<SubSeq(s, 1, k - 1)>> \o Split(SubSeq(s, k + 1, Len(s)))

\* round(num/den) of Python 2: to nearest, halves away from zero (num, den >= 0)
Round(num, den) == (2 * num + den) \div (2 * den)

----------------------------------------------------------------------------
(* Converters *)

Ok(t) == [ok |-> TRUE, ticks |-> t]
Raise(e) == [ok |-> FALSE, error |-> e]

\* H:MM:SS branch of the try block: 60*xlist[0]+xlist[1]+xlist[2]/60.
HoursForm(xlist) ==
    (60 * xlist[1] + xlist[2]) * TicksPerMinute + xlist[3] * TicksPerSecond

\* MinutesForm reading its two fields as hours and minutes
MinutesFormAsHours(xlist) == (60 * xlist[1] + xlist[2]) * TicksPerMinute

\* the except branch: xlist[0]+xlist[1]/60.
MinutesForm(xlist) == xlist[1] * TicksPerMinute + xlist[2] * TicksPerSecond

timeString_to_minutes(x) ==
    LET fields == Split(x) IN
    IF \E i \in 1..Len(fields) : ~IsInt(fields[i])
    THEN Raise("ValueError")               \* map(int, ...) is outside the try
    ELSE LET xlist == [i \in 1..Len(fields) |-> DigitsVal(fields[i])] IN
         IF Len(xlist) >= 3 THEN Ok(HoursForm(xlist))
         ELSE IF Len(xlist) = 2 THEN Ok(MinutesForm(xlist))
         ELSE Raise("IndexError")          \* raised again inside the except

\* round((x-int(x))*60)
RoundedSeconds(x) == Round(x % TicksPerMinute, TicksPerSecond)

\* minutes_to_timeString wrapping the minutes field at the hour
minutes_to_timeString_wrapped(x) ==
    IntToStr((x \div TicksPerMinute) % 60) \o <<":">> \o Pad2(RoundedSeconds(x))

minutes_to_timeString(x) ==
    IntToStr(x \div TicksPerMinute) \o <<":">> \o Pad2(RoundedSeconds(x))

timeFormat(x, pos) ==
    IntToStr(x \div TicksPerMinute) \o <<":">> \o Pad2(RoundedSeconds(x))

----------------------------------------------------------------------------
(* Specification of the converters: either a duration is formatted and the *)
(* string parsed back, or a string written by hand is parsed.              *)

HMS(h, m, s) == IntToStr(h) \o <<":">> \o Pad2(m) \o <<":">> \o Pad2(s)
MS(m, s) == IntToStr(m) \o <<":">> \o Pad2(s)

DurationArgs ==
    {[kind |-> "minutes", x |-> x] : x \in 0..(MaxMinutes * TicksPerMinute + TicksPerMinute - 1)}
    \cup {[kind |-> "hms", h |-> h, m |-> m, s |-> s] :
            h \in 0..MaxHours, m \in 0..59, s \in 0..59}
    \cup {[kind |-> "ms", m |-> m, s |-> s] : m \in 0..MaxMinutes, s \in 0..59}

InitDuration ==
    /\ arg \in DurationArgs
    /\ pc = IF arg.kind = "minutes" THEN "minutes" ELSE "string"
    /\ timeStr = IF arg.kind = "hms" THEN HMS(arg.h, arg.m, arg.s)
                 ELSE IF arg.kind = "ms" THEN MS(arg.m, arg.s)
                 ELSE <<>>
    /\ parsed = None
    /\ results = <<>>
    /\ stats = None
    /\ cat = 0
    /\ newResults = <<>>
    /\ results1 = <<>>
    /\ results2 = <<>>

Format ==
    /\ pc = "minutes"
    /\ timeStr' = minutes_to_timeString(arg.x)
    /\ pc' = "string"
    /\ UNCHANGED <<arg, parsed, results, stats, cat, newResults, results1, results2>>

TickLabel ==
    /\ pc = "minutes"
    /\ timeStr' = timeFormat(arg.x, 0)
    /\ pc' = "label"
    /\ UNCHANGED <<arg, parsed, results, stats, cat, newResults, results1, results2>>

Parse ==
    /\ pc = "string"
    /\ parsed' = timeString_to_minutes(timeStr)
    /\ pc' = "parsed"
    /\ UNCHANGED <<arg, timeStr, results, stats, cat, newResults, results1, results2>>

NextDuration == Format \/ TickLabel \/ Parse

SpecDuration == InitDuration /\ [][NextDuration]_vars

\* C8: a string of three integer fields H:MM:SS parses to 60*H + MM + SS/60
\* minutes and a string of two fields MM:SS parses, through the except
\* branch and without an error, to MM + SS/60 minutes; "1:02:30" gives 62.5
\* and "25:30" gives 25.5.
C8_ParseDuration ==
    pc = "parsed" =>
        /\ arg.kind = "hms" =>
              parsed = Ok(((60 * arg.h + arg.m) * 60 + arg.s) * TicksPerSecond)
        /\ arg.kind = "ms" =>
              parsed = Ok((arg.m * 60 + arg.s) * TicksPerSecond)
        /\ timeStr = <<"1", ":", "0", "2", ":", "3", "0">> =>
              parsed.ok /\ 2 * parsed.ticks = 125 * TicksPerMinute
        /\ timeStr = <<"2", "5", ":", "3", "0">> =>
              parsed.ok /\ 2 * parsed.ticks = 51 * TicksPerMinute

C8_Witness ==
    /\ pc = "parsed"
    /\ timeStr = <<"2", "5", ":", "3", "0">>
    /\ parsed = Ok(25 * TicksPerMinute + 30 * TicksPerSecond)

\* C9: a duration of a whole number of seconds, formatted and parsed back,
\* comes back within less than one second (1/60 minute) of itself, durations
\* of an hour and more included.
C9_RoundTrip ==
    (pc = "parsed" /\ arg.kind = "minutes" /\ arg.x % TicksPerSecond = 0) =>
        /\ parsed.ok
        /\ parsed.ticks - arg.x < TicksPerSecond
        /\ arg.x - parsed.ticks < TicksPerSecond

C9_Witness ==
    /\ pc = "parsed"
    /\ arg.kind = "minutes"
    /\ arg.x = 62 * TicksPerMinute + 30 * TicksPerSecond
    /\ timeStr = <<"6", "2", ":", "3", "0">>
    /\ parsed = Ok(arg.x)

\* what follows the colon of a string M:SS
SecondsField(s) == Split(s)[2]

\* C10: the seconds field written by minutes_to_timeString and timeFormat is
\* two digits between 00 and 59 for every non-negative duration.
C10_SecondsBelow60 ==
    (arg.kind = "minutes" /\ pc \in {"string", "label"}) =>
        /\ Len(SecondsField(timeStr)) = 2
        /\ DigitsVal(SecondsField(timeStr)) \in 0..59

----------------------------------------------------------------------------
(* importResults *)

\* the literals passed to read_csv
ReadSkipRows == 13
ReadSkipFooter == 36

NaN == "NaN"

\* x.strip("%")
RECURSIVE Strip(_)
Strip(s) == IF s # <<>> /\ s[1] = "%" THEN Strip(Tail(s))
            ELSE IF s # <<>> /\ s[Len(s)] = "%" THEN Strip(SubSeq(s, 1, Len(s) - 1))
            ELSE s

\* float(x.strip("%"))/100. ; the fraction is kept as its number of hundredths
convertPercent(x) ==
    IF IsInt(Strip(x)) THEN [ok |-> TRUE, value |-> DigitsVal(Strip(x))]
    ELSE Raise("ValueError")

\* read_csv applies a converter to the fields that are not empty; an empty
\* field is a missing value
ConvertTime(field) ==
    IF field = <<>> THEN [ok |-> TRUE, value |-> NaN]
    ELSE LET t == timeString_to_minutes(field) IN
         IF t.ok THEN [ok |-> TRUE, value |-> t.ticks] ELSE t

ConvertAgeGrade(field) ==
    IF field = <<>> THEN [ok |-> TRUE, value |-> NaN] ELSE convertPercent(field)

\* one line of the data region, with the columns Club, Note and Badges dropped
ParseLine(line) ==
    [Position |-> line.Position, Runner |-> line.Runner,
     Time |-> ConvertTime(line.Time).value,
     AgeCat |-> line.AgeCat,
     AgeGrade |-> ConvertAgeGrade(line.AgeGrade).value,
     Gender |-> line.Gender, GenderPos |-> line.GenderPos,
     TotalRuns |-> line.TotalRuns]

LineParses(line) ==
    ConvertTime(line.Time).ok /\ ConvertAgeGrade(line.AgeGrade).ok

\* the lines read_csv keeps
DataRegion(infile) == SubSeq(infile, ReadSkipRows + 1, Len(infile) - ReadSkipFooter)

IsUnknown(row) == row.Runner = "Unknown"
IsKnown(row) == row.Runner # "Unknown"
IsMale(row) == row.Gender = "M"

\* results[results['Runner'] == 'Unknown']
OnlyUnknowns(table) == SelectSeq(table, IsUnknown)

\* results[results['Runner'] != 'Unknown']
RemoveUnknowns(table) == SelectSeq(table, IsKnown)

\* totalRunners, totalUnknowns, validEntries, maleRunners
Counts(table) ==
    [totalRunners |-> Len(table),
     totalUnknowns |-> Len(OnlyUnknowns(table)),
     validEntries |-> Len(table) - Len(OnlyUnknowns(table)),
     maleRunners |-> Len(SelectSeq(table, IsMale))]

\* the two divisions of the report
ReportDivides(c) == c.totalRunners # 0 /\ c.validEntries # 0

Table(t) == [ok |-> TRUE, table |-> t]

\* importResults counting after the Unknown rows are removed
importResults_countsLate(infile, skiprows, skipfooter, removeUnknowns, report) ==
    LET data == DataRegion(infile)
        read == [i \in 1..Len(data) |-> ParseLine(data[i])]
        kept == IF removeUnknowns THEN RemoveUnknowns(read) ELSE read
        c    == Counts(kept)
    IN  IF \E i \in 1..Len(data) : ~LineParses(data[i])
        THEN [value |-> Raise("ValueError"), stats |-> None]
        ELSE IF report /\ ~ReportDivides(c)
        THEN [value |-> Raise("ZeroDivisionError"), stats |-> c]
        ELSE [value |-> Table(kept), stats |-> c]

importResults(infile, skiprows, skipfooter, removeUnknowns, report) ==
    LET data == DataRegion(infile)
        read == [i \in 1..Len(data) |-> ParseLine(data[i])]
        c    == Counts(read)
    IN  IF \E i \in 1..Len(data) : ~LineParses(data[i])
        THEN [value |-> Raise("ValueError"), stats |-> None]
        ELSE IF report /\ ~ReportDivides(c)
        THEN [value |-> Raise("ZeroDivisionError"), stats |-> c]
        ELSE [value |-> Table(IF removeUnknowns THEN RemoveUnknowns(read) ELSE read),
              stats |-> c]

\* The files imported: a banner, the data lines and a footer.
Banner == [junk |-> TRUE]

RawLine(kind, position) ==
    IF kind = "John" THEN
        [Position |-> position, Runner |-> "John Smith",
         Time |-> <<"2", "2", ":", "1", "5">>, AgeCat |-> "SM30-34",
         AgeGrade |-> <<"7", "5", "%">>, Gender |-> "M", GenderPos |-> position,
         Club |-> "", Note |-> "PB", TotalRuns |-> 12, Badges |-> ""]
    ELSE IF kind = "Jane" THEN
        [Position |-> position, Runner |-> "Jane Doe",
         Time |-> <<"1", ":", "0", "2", ":", "3", "0">>, AgeCat |-> "VW40-44",
         AgeGrade |-> <<"4", "8", "%">>, Gender |-> "F", GenderPos |-> position,
         Club |-> "", Note |-> "", TotalRuns |-> 3, Badges |-> ""]
    ELSE IF kind = "Unknown" THEN
        [Position |-> position, Runner |-> "Unknown",
         Time |-> <<>>, AgeCat |-> "", AgeGrade |-> <<>>, Gender |-> "",
         GenderPos |-> NaN, Club |-> "", Note |-> "", TotalRuns |-> NaN,
         Badges |-> ""]
    ELSE
        [Position |-> position, Runner |-> "No Seconds",
         Time |-> <<"2", "5">>, AgeCat |-> "SM25-29",
         AgeGrade |-> <<"6", "0", "%">>, Gender |-> "M", GenderPos |-> position,
         Club |-> "", Note |-> "", TotalRuns |-> 1, Badges |-> ""]

LineKinds == {"John", "Jane", "Unknown", "Malformed"}

File(header, kinds, footer) ==
    [i \in 1..header |-> Banner]
    \o [i \in 1..Len(kinds) |-> RawLine(kinds[i], i)]
    \o [i \in 1..footer |-> Banner]

KindSeqs == UNION {[1..n -> LineKinds] : n \in 0..MaxDataRows}

InitImport ==
    /\ \E h \in (ReadSkipRows - MaxShort)..ReadSkipRows,
          f \in (ReadSkipFooter - MaxShort)..ReadSkipFooter,
          kinds \in KindSeqs, ru \in BOOLEAN, rep \in BOOLEAN :
          arg = [infile |-> File(h, kinds, f), skiprows |-> h, skipfooter |-> f,
                 removeUnknowns |-> ru, report |-> rep]
    /\ pc = "import"
    /\ timeStr = <<>>
    /\ parsed = None
    /\ results = None
    /\ stats = None
    /\ cat = 0
    /\ newResults = <<>>
    /\ results1 = <<>>
    /\ results2 = <<>>

Import ==
    /\ pc = "import"
    /\ LET r == importResults(arg.infile, arg.skiprows, arg.skipfooter,
                              arg.removeUnknowns, arg.report)
       IN  results' = r.value /\ stats' = r.stats
    /\ pc' = "imported"
    /\ UNCHANGED <<arg, timeStr, parsed, cat, newResults, results1, results2>>

NextImport == Import

SpecImport == InitImport /\ [][NextImport]_vars

\* the lines the caller asked to keep: skiprows+1 .. lineCount - skipfooter
AskedLines == (arg.skiprows + 1)..(Len(arg.infile) - arg.skipfooter)

Positions(table) == {table[i].Position : i \in 1..Len(table)}

\* C1: the table returned is built from the lines skiprows+1 ..
\* lineCount-skipfooter of the file, whatever skiprows and skipfooter the
\* caller passes.
C1_SkipsAsAsked ==
    (pc = "imported" /\ results.ok) =>
        /\ stats.totalRunners = Cardinality(AskedLines)
        /\ Positions(results.table) =
             {arg.infile[i].Position : i \in
                {j \in AskedLines : arg.removeUnknowns => IsKnown(arg.infile[j])}}

\* the lines read_csv keeps, by their numbers in the file
ReadLines == (ReadSkipRows + 1)..(Len(arg.infile) - ReadSkipFooter)

\* C2: with removeUnknowns, the table returned holds exactly the rows read
\* whose Runner is not "Unknown", in the order of the file; totalUnknowns is
\* the number of Unknown rows read, and validEntries, which is totalRunners
\* less totalUnknowns, is the number of rows returned.
C2_UnknownsRemoved ==
    (pc = "imported" /\ results.ok /\ arg.removeUnknowns) =>
        LET t == results.table IN
        /\ \A i \in 1..Len(t) : t[i].Runner # "Unknown"
        /\ Positions(t) =
             {arg.infile[j].Position : j \in {k \in ReadLines : IsKnown(arg.infile[k])}}
        /\ \A i \in 1..Len(t), j \in 1..Len(t) : i < j => t[i].Position < t[j].Position
        /\ stats.totalRunners = Cardinality(ReadLines)
        /\ stats.totalUnknowns =
             Cardinality({k \in ReadLines : arg.infile[k].Runner = "Unknown"})
        /\ stats.validEntries = stats.totalRunners - stats.totalUnknowns
        /\ stats.validEntries = Len(t)

C2_Witness ==
    /\ pc = "imported"
    /\ arg.removeUnknowns
    /\ results.ok
    /\ stats.totalUnknowns = 1
    /\ stats.totalRunners = 3
    /\ Len(results.table) = 2

----------------------------------------------------------------------------
(* resample_AgeCat *)

allCats == <<"JM10", "JM11-14", "JM15-17", "JW10", "JW11-14", "JW15-17",
             "SM18-19", "SM20-24", "SM25-29", "SM30-34", "SW20-24", "SW25-29",
             "SW30-34", "VM35-39", "VM40-44", "VM45-49", "VM50-54", "VM55-59",
             "VM60-64", "VM65-69", "VM70-74", "VW35-39", "VW40-44", "VW45-49",
             "VW50-54", "VW55-59", "VW60-64", "VW65-69", "VW70-74">>

selectCats == <<"SM25-29", "SM30-34",
                "SW25-29", "SW30-34",
                "VM35-39", "VM40-44", "VM45-49", "VM50-54", "VM55-59",
                "VW35-39", "VW40-44", "VW45-49", "VW50-54", "VW55-59">>

\* results[results['Age Cat']==cat]
OfCat(table, c) == SelectSeq(table, LAMBDA row : row.AgeCat = c)

Injective(f) == \A i, j \in DOMAIN f : i # j => f[i] # f[j]

\* the draws of n rows of a table, without replacement, in the order drawn
DrawsOf(table, n) ==
    {[i \in 1..n |-> table[pick[i]]] :
        pick \in {f \in [1..n -> 1..Len(table)] : Injective(f)}}

\* Sample returning the whole table instead of n rows of it
SampleWhole(table, n) == IF n > Len(table) THEN {} ELSE {table}

\* Sample drawing with replacement
SampleReplacing(table, n) ==
    IF table = <<>> THEN {}
    ELSE {[i \in 1..n |-> table[pick[i]]] : pick \in [1..n -> 1..Len(table)]}

\* DataFrame.sample(n=n, replace=False): a ValueError when the table has
\* fewer than n rows
Sample(table, n) == IF n > Len(table) THEN {} ELSE DrawsOf(table, n)

\* The tables resampled: the categories of VariedCats have 0..MaxPerCat rows
\* each, every other category has one row or none.
VariedCats == {"SM25-29", "VW55-59", "JM10"}

RECURSIVE TableOf(_, _, _)
TableOf(count, k, next) ==
    IF k > Len(allCats) THEN <<>>
    ELSE [i \in 1..count[allCats[k]] |->
            [Position |-> next + i - 1, AgeCat |-> allCats[k]]]
         \o TableOf(count, k + 1, next + count[allCats[k]])

AgeCatTables ==
    {TableOf([c \in {allCats[k] : k \in 1..Len(allCats)} |->
                 IF c \in VariedCats THEN varied[c] ELSE others], 1, 1) :
        varied \in [VariedCats -> 0..MaxPerCat], others \in 0..1}

InitAgeCat ==
    /\ \E table \in AgeCatTables, n \in 1..MaxSamples :
          arg = [results |-> table, nsamples |-> n]
    /\ pc = "loop"
    /\ cat = 1
    /\ newResults = <<>>
    /\ timeStr = <<>>
    /\ parsed = None
    /\ results = None
    /\ stats = None
    /\ results1 = <<>>
    /\ results2 = <<>>

\* one iteration of the loop, the category has the rows asked for
AppendSample ==
    /\ pc = "loop"
    /\ cat <= Len(selectCats)
    /\ \E drawn \in Sample(OfCat(arg.results, selectCats[cat]), arg.nsamples) :
          newResults' = newResults \o drawn
    /\ cat' = cat + 1
    /\ UNCHANGED <<pc, arg, timeStr, parsed, results, stats, results1, results2>>

\* one iteration of the loop, sample raises and the except clause passes
SkipCat ==
    /\ pc = "loop"
    /\ cat <= Len(selectCats)
    /\ Sample(OfCat(arg.results, selectCats[cat]), arg.nsamples) = {}
    /\ cat' = cat + 1
    /\ UNCHANGED <<pc, arg, timeStr, parsed, results, stats, newResults,
                   results1, results2>>

ReturnAgeCat ==
    /\ pc = "loop"
    /\ cat > Len(selectCats)
    /\ results' = Table(newResults)
    /\ pc' = "returned"
    /\ UNCHANGED <<arg, timeStr, parsed, stats, cat, newResults, results1, results2>>

NextAgeCat == AppendSample \/ SkipCat \/ ReturnAgeCat

SpecAgeCat == InitAgeCat /\ [][NextAgeCat]_vars

SelectSet == {selectCats[k] : k \in 1..Len(selectCats)}

CatIndex(c) == CHOOSE k \in 1..Len(selectCats) : selectCats[k] = c

RowsOf(table) == {table[i] : i \in 1..Len(table)}

\* C3: after every iteration of the loop and at the return, the result has
\* at most nsamples * 14 rows, each a row of the input whose Age Cat is one
\* of the 14 select categories.
C3_BoundAndMembership ==
    /\ Len(selectCats) = 14
    /\ Len(newResults) <= arg.nsamples * 14
    /\ \A i \in 1..Len(newResults) :
          newResults[i] \in RowsOf(arg.results) /\ newResults[i].AgeCat \in SelectSet
    /\ pc = "returned" => results = Table(newResults)

C3_Witness ==
    /\ pc = "returned"
    /\ arg.nsamples = 1
    /\ Len(results.table) = 14
    /\ Len(arg.results) > 14

\* C4: each select category with at least nsamples rows contributes exactly
\* nsamples distinct rows of it, each category with fewer contributes none
\* and no error is raised; the contributions come in the order of selectCats.
C4_PerCategory ==
    /\ \A k \in 1..Len(selectCats) :
          LET had == OfCat(arg.results, selectCats[k])
              got == OfCat(newResults, selectCats[k])
          IN  /\ k < cat =>
                    /\ Len(had) >= arg.nsamples => Len(got) = arg.nsamples
                    /\ Len(had) < arg.nsamples => Len(got) = 0
                    /\ Cardinality(RowsOf(got)) = Len(got)
                    /\ RowsOf(got) \subseteq RowsOf(had)
              /\ k >= cat => Len(got) = 0
    /\ \A i, j \in 1..Len(newResults) :
          i < j => CatIndex(newResults[i].AgeCat) <= CatIndex(newResults[j].AgeCat)
    /\ pc = "returned" => results = Table(newResults) /\ cat = Len(selectCats) + 1

C4_Witness ==
    /\ pc = "returned"
    /\ arg.nsamples = 2
    /\ Len(OfCat(arg.results, "SM25-29")) = 1
    /\ Len(OfCat(arg.results, "VW55-59")) = 2
    /\ Len(OfCat(arg.results, "SM30-34")) = 1
    /\ Len(results.table) = 2
    /\ results.table[1].Position > results.table[2].Position

----------------------------------------------------------------------------
(* resample *)

\* the default of nCats
DefaultCats == 10

\* range(0, stop, step) of Python 2, step > 0
Range(stop, step) == [i \in 1..((stop + step - 1) \div step) |-> (i - 1) * step]

\* bins=range(0,100+100/nCats,100/nCats), with the integer division of Python 2
Bins(nCats) == Range(100 + (100 \div nCats), 100 \div nCats)

\* pd.cut raises when range() has a zero step or when the labels
\* range(0,nCats) are not one fewer than the bin edges
CutRaises(nCats) == (100 \div nCats) = 0 \/ Len(Bins(nCats)) - 1 # nCats

\* the missing label pd.cut gives a value that no interval holds
NoLabel == 0 - 1

\* pd.cut(values, bins, labels): the label of the interval (bins[k], bins[k+1]]
\* holding the value, NaN when no interval holds it
Cut(value, bins) ==
    IF \E k \in 1..(Len(bins) - 1) : bins[k] < value /\ value <= bins[k + 1]
    THEN (CHOOSE k \in 1..(Len(bins) - 1) : bins[k] < value /\ value <= bins[k + 1]) - 1
    ELSE NoLabel

\* results['AG_Cat'] = pd.cut(results['Age Grade']*100, ...)
WithAGCat(table, nCats) ==
    [i \in 1..Len(table) |->
        [Position |-> table[i].Position, AgeGrade |-> table[i].AgeGrade,
         AG_Cat |-> Cut(table[i].AgeGrade, Bins(nCats))]]

\* counts = results1['AG_Cat'].value_counts(), read as counts[x]
CountOf(table1, x) == Cardinality({i \in 1..Len(table1) : table1[i].AG_Cat = x})

\* [counts[x] for x in results['AG_Cat']] raises a KeyError on a NaN
WeightsRaise(table) == \E i \in 1..Len(table) : table[i].AG_Cat = NoLabel

\* results['weights'] = [counts[x] for x in results['AG_Cat']]
WithWeights(table, table1) ==
    [i \in 1..Len(table) |->
        [Position |-> table[i].Position, AgeGrade |-> table[i].AgeGrade,
         AG_Cat |-> table[i].AG_Cat, weights |-> CountOf(table1, table[i].AG_Cat)]]

HasWeight(row) == row.weights > 0

\* WeightedSample drawing among all the rows
WeightedSampleOfAll(table, n) ==
    IF SelectSeq(table, HasWeight) = <<>> \/ n > Len(table) THEN {}
    ELSE DrawsOf(table, n)

\* WeightedSample returning the rows there are when too many are asked
WeightedSampleShort(table, n) ==
    LET eligible == SelectSeq(table, HasWeight) IN
    IF eligible = <<>> THEN {}
    ELSE IF n > Len(eligible) THEN DrawsOf(eligible, Len(eligible))
    ELSE DrawsOf(eligible, n)

\* DataFrame.sample(n=n, weights='weights', replace=False): a ValueError when
\* the weights sum to zero or fewer than n of them are not zero, else a draw
\* among the rows whose weight is not zero
WeightedSample(table, n) ==
    LET eligible == SelectSeq(table, HasWeight) IN
    IF eligible = <<>> \/ n > Len(eligible) THEN {}
    ELSE DrawsOf(eligible, n)

\* the tables as resample leaves them, up to the call of sample
Prepared(table1, table2, nCats) ==
    IF CutRaises(nCats)
    THEN [error |-> "ValueError", results1 |-> table1, results2 |-> table2]
    ELSE LET cut1 == WithAGCat(table1, nCats)
             cut2 == WithAGCat(table2, nCats)
         IN  IF WeightsRaise(cut1)
             THEN [error |-> "KeyError", results1 |-> cut1, results2 |-> table2]
             ELSE IF WeightsRaise(cut2)
             THEN [error |-> "KeyError", results1 |-> WithWeights(cut1, cut1),
                   results2 |-> cut2]
             ELSE [error |-> "", results1 |-> WithWeights(cut1, cut1),
                   results2 |-> WithWeights(cut2, cut1)]

\* The tables resampled: age grades at the ends of the scale and on an edge
\* between buckets.
TestGrades == {0, 50, 100}

GradeTables(max) ==
    {[i \in 1..Len(g) |-> [Position |-> i, AgeGrade |-> g[i]]] :
        g \in UNION {[1..n -> TestGrades] : n \in 0..max}}

InitResample ==
    /\ results1 \in GradeTables(MaxRows)
    /\ results2 \in GradeTables(MaxRows)
    /\ \E n \in 0..MaxSamples, nCats \in (1..MaxBuckets) \cup {DefaultCats} :
          arg = [results1 |-> results1, results2 |-> results2,
                 nsamples |-> n, nCats |-> nCats]
    /\ pc = "resample"
    /\ timeStr = <<>>
    /\ parsed = None
    /\ results = None
    /\ stats = None
    /\ cat = 0
    /\ newResults = <<>>

\* resample raises, in pd.cut, in the weights or in sample
ResampleRaises ==
    /\ pc = "resample"
    /\ LET p == Prepared(results1, results2, arg.nCats) IN
       /\ results1' = p.results1
       /\ results2' = p.results2
       /\ \/ p.error # "" /\ results' = Raise(p.error)
          \/ /\ p.error = ""
             /\ WeightedSample(p.results2, arg.nsamples) = {}
             /\ results' = Raise("ValueError")
    /\ pc' = "resampled"
    /\ UNCHANGED <<arg, timeStr, parsed, stats, cat, newResults>>

\* resample returns a draw
ResampleReturns ==
    /\ pc = "resample"
    /\ LET p == Prepared(results1, results2, arg.nCats) IN
       /\ p.error = ""
       /\ results1' = p.results1
       /\ results2' = p.results2
       /\ \E drawn \in WeightedSample(p.results2, arg.nsamples) :
             results' = Table(drawn)
    /\ pc' = "resampled"
    /\ UNCHANGED <<arg, timeStr, parsed, stats, cat, newResults>>

NextResample == ResampleRaises \/ ResampleReturns

SpecResample == InitResample /\ [][NextResample]_vars

\* the bucket of an age grade when the scale 0..100 is cut into n buckets of
\* equal width, a grade on an edge going to the bucket below it and 0 to the
\* first bucket
EqualWidthBucket(grade, n) ==
    IF grade = 0 THEN 0 ELSE ((grade * n + 99) \div 100) - 1

ReferenceCount(grade) ==
    Cardinality({j \in 1..Len(arg.results1) :
        EqualWidthBucket(arg.results1[j].AgeGrade, arg.nCats) =
        EqualWidthBucket(grade, arg.nCats)})

\* C5: when resample returns, the result holds exactly nsamples rows of the
\* target, their positions differ pairwise, and no row of it has weight 0:
\* each is in a bucket that holds a reference row.
C5_DistinctAndWeighted ==
    (pc = "resampled" /\ results.ok) =>
        LET t == results.table IN
        /\ Len(t) = arg.nsamples
        /\ Cardinality(Positions(t)) = Len(t)
        /\ \A i \in 1..Len(t) :
              /\ \E k \in 1..Len(arg.results2) :
                    /\ arg.results2[k].Position = t[i].Position
                    /\ arg.results2[k].AgeGrade = t[i].AgeGrade
              /\ t[i].weights # 0
              /\ ReferenceCount(t[i].AgeGrade) > 0

C5_Witness ==
    /\ pc = "resampled"
    /\ results.ok
    /\ Len(results.table) = 1
    /\ Len(results2) = 2
    /\ \E i \in 1..Len(results2) : results2[i].weights = 0

\* C6: resample raises, and returns nothing, when nsamples exceeds the number
\* of target rows whose weight is not zero, all weights zero included; a
\* table it returns never has fewer than nsamples rows.
C6_RaisesWhenShort ==
    pc = "resampled" =>
        /\ results.ok => Len(results.table) >= arg.nsamples
        /\ arg.nsamples >
             Cardinality({i \in 1..Len(arg.results2) :
                             ReferenceCount(arg.results2[i].AgeGrade) > 0})
           => results = Raise("ValueError") \/ results = Raise("KeyError")

C6_Witness ==
    /\ pc = "resampled"
    /\ arg.nsamples = 1
    /\ Len(results2) = 2
    /\ \A i \in 1..Len(results2) : "weights" \in DOMAIN results2[i] /\ results2[i].weights = 0
    /\ Len(results1) = 2
    /\ results = Raise("ValueError")

\* C7: for every nCats >= 1 and every age grade in 0..100, 0 and 100
\* included, each target row gets as its weight the number of reference rows
\* in its own bucket of the nCats equal-width buckets.
C7_WeightsEveryBuckets ==
    pc = "resampled" =>
        \A i \in 1..Len(results2) :
            /\ "weights" \in DOMAIN results2[i]
            /\ results2[i].weights = ReferenceCount(results2[i].AgeGrade)

----------------------------------------------------------------------------
(* The whole module: one call of one of its functions. *)

Init == InitDuration \/ InitImport \/ InitAgeCat \/ InitResample

Next == NextDuration \/ NextImport \/ NextAgeCat \/ NextResample

Spec == Init /\ [][Next]_vars

====
